---- MODULE Spec2Model ----
(***************************************************************************)
(* Model of the EthDA monitor (src/src/monitor.ts):                        *)
(*   - handleMonitor, one scan pass over the source chain, with its        *)
(*     helpers getLatestBlkNum, getBlock, saveBlock and pin2Gateway;       *)
(*   - makeIntervalTask, the periodic task scheduler.                      *)
(* Every await of the code is a step of its own; the remote node, the      *)
(* IPFS gateway and the Crust chain answer nondeterministically.           *)
(***************************************************************************)
EXTENDS Integers, Sequences, FiniteSets, TLC

VARIABLES
  file,        \* contents of ./block.json (the checkpoint store)
  chainHead,   \* true head block number of the source chain
  malformed,   \* ids of the chain's logs that do not decode
  pc,          \* position of handleMonitor
  passes,      \* number of scan passes started
  outcome,     \* how the most recent pass ended (or "running")
  curBlkNum,   \* handleMonitor local
  fromBlkNum,  \* handleMonitor local
  toBlkNum,    \* handleMonitor local
  hTry,        \* getLatestBlkNum local `tryout`
  events,      \* events.data.result of the current range (log ids)
  evIdx,       \* index of the event the for-loop is at
  tryout,      \* handleMonitor local `tryout` of the current event
  cid,         \* result of the last pin2Gateway call
  cp0,         \* value getBlock returned to this pass
  queries,     \* eth_getLogs filters posted by this pass, in order
  writes,      \* saveBlock calls of this pass, in order
  calls,       \* pin/order calls of the current event's attempt sequence
  delivered,   \* log ids whose attempt sequence ended in this pass
  nCalls,      \* pin and order calls made by this pass
  submits,     \* order calls made for each log so far, over all passes
  cpBase,      \* first block number the checkpoint store held
  clean,       \* no pass was cut short or clamped and no order failed so far
  prevOutcome, \* how the pass before the current one ended
  tState,      \* makeIntervalTask: "none", "created" or "error"
  tArgs,       \* makeIntervalTask: <<startDelay, interval>>
  stopped,     \* makeIntervalTask closure variable
  timer,       \* makeIntervalTask closure variable (0: unassigned)
  armed,       \* timers set and neither fired nor cleared
  running,     \* handler invocations in flight
  starts,      \* calls of start() so far
  stops        \* calls of stop() so far

scanVars == <<file, chainHead, malformed, pc, passes, outcome, curBlkNum,
              fromBlkNum, toBlkNum, hTry, events, evIdx, tryout, cid, cp0,
              queries, writes, calls, delivered, nCalls, submits, cpBase,
              clean, prevOutcome>>
taskVars == <<tState, tArgs, stopped, timer, armed, running, starts, stops>>
vars == <<scanVars, taskVars>>

----------------------------------------------------------------------------
(* Bounds of the model *)
MaxPasses == 2
MaxHead == 2350
HeadOffset == 100
MaxDelay == 2
MaxStarts == 2
MaxStops == 2
SubmitCap == 2

(* Program constants *)
searchStep == 1000
HeadTryout == 10
DeliveryTryout == 5

----------------------------------------------------------------------------
(* JavaScript values that reach the block-number variables *)
Num(n) == [t |-> "num", n |-> n]
NaN == [t |-> "nan", n |-> 0]
Null == [t |-> "null", n |-> 0]

\* ToNumber: null converts to 0, NaN stays NaN
ToNumber(v) == IF v.t = "null" THEN Num(0) ELSE v
\* a <= b and a > b of JavaScript: false whenever an operand is NaN
JsLe(a, b) == /\ ToNumber(a).t = "num" /\ ToNumber(b).t = "num"
              /\ ToNumber(a).n <= ToNumber(b).n
JsGt(a, b) == /\ ToNumber(a).t = "num" /\ ToNumber(b).t = "num"
              /\ ToNumber(a).n > ToNumber(b).n
\* a + k of JavaScript for a number k
JsAdd(a, k) == IF ToNumber(a).t = "num" THEN Num(ToNumber(a).n + k) ELSE NaN

\* Number.prototype.toString(16) as a sequence of hex digits
RECURSIVE ToString16(_)
ToString16(n) == IF n < 16 THEN <<n>>
                 ELSE Append(ToString16(n \div 16), n % 16)
\* parseInt(s, 16) of a sequence of hex digits; no digits gives NaN
RECURSIVE ParseDigits(_, _)
ParseDigits(s, acc) == IF s = <<>> THEN acc
                       ELSE ParseDigits(Tail(s), acc * 16 + Head(s))
ParseInt16(s) == IF s = <<>> THEN NaN ELSE Num(ParseDigits(s, 0))

\* JSON.stringify({blockNumber: v}) followed by JSON.parse(...).blockNumber
Stringify(v) == IF v.t = "num" THEN v ELSE Null

----------------------------------------------------------------------------
(* The source chain *)
HeadValues == {h \in 1..MaxHead : h % searchStep = HeadOffset} \cup {MaxHead}
ChainLogs == << [id |-> 1, blk |-> HeadOffset + 500],
                [id |-> 2, blk |-> HeadOffset + searchStep],
                [id |-> 3, blk |-> MaxHead] >>
LogIds == 1..Len(ChainLogs)

\* eth_getLogs: the logs of blocks fromBlock..toBlock that exist, in order
RECURSIVE FilterLogs(_, _, _)
FilterLogs(i, f, t) ==
  IF i > Len(ChainLogs) THEN <<>>
  ELSE IF /\ f <= ChainLogs[i].blk /\ ChainLogs[i].blk <= t
          /\ ChainLogs[i].blk <= chainHead
       THEN <<i>> \o FilterLogs(i + 1, f, t)
       ELSE FilterLogs(i + 1, f, t)
EthGetLogs(filter) ==
  FilterLogs(1, ParseDigits(filter.fromBlock, 0), ParseDigits(filter.toBlock, 0))

----------------------------------------------------------------------------
(* Checkpoint store *)
Absent == [kind |-> "absent", val |-> Null]
Empty == [kind |-> "empty", val |-> Null]
Garbage == [kind |-> "garbage", val |-> Null]
Json(v) == [kind |-> "json", val |-> v]

\* getBlock: the value returned; GetBlockThrows when JSON.parse throws
GetBlockThrows == file.kind \in {"empty", "garbage"}
GetBlock == IF file.kind = "absent" THEN Num(-1) ELSE file.val

\* saveBlock(v): the file afterwards, and the history record of the write
SaveBlock(v) == Json(Stringify(v))
WriteRec(v) == [val |-> v, fin |-> delivered]

----------------------------------------------------------------------------
(* Content identifiers *)
NoCid == [ver |-> 0, h |-> 0]
\* CID.toV0().toString(): the version-0 form of the same multihash
ToV0(c) == [ver |-> 0, h |-> c.h]

----------------------------------------------------------------------------
(* handleMonitor: one scan pass *)
None == [t |-> "none", n |-> 0]

locals == <<curBlkNum, fromBlkNum, toBlkNum, hTry, events, evIdx, tryout,
            cid, cp0>>
history == <<queries, writes, calls, delivered, nCalls>>
env == <<chainHead, malformed>>
ledger == <<submits, cpBase, clean, prevOutcome>>

\* the pass returns (or its exception leaves handleMonitor)
EndPass(o) == /\ pc' = "idle"
              /\ outcome' = o
              /\ clean' = (clean /\ o = "ok")
              /\ UNCHANGED <<submits, cpBase, prevOutcome>>

\* one more order call for log l, counted up to SubmitCap
CountSubmit(l) ==
  submits' = [submits EXCEPT ![l] = IF @ < SubmitCap THEN @ + 1 ELSE @]

\* the scheduler invokes handleMonitor
StartPass ==
  /\ pc = "idle"
  /\ passes < MaxPasses
  /\ passes' = passes + 1
  /\ pc' = "getHead"
  /\ outcome' = "running"
  /\ prevOutcome' = outcome
  /\ hTry' = HeadTryout
  /\ curBlkNum' = None /\ fromBlkNum' = None /\ toBlkNum' = None
  /\ events' = <<>> /\ evIdx' = 0 /\ tryout' = 0 /\ cid' = NoCid
  /\ cp0' = None
  /\ queries' = <<>> /\ writes' = <<>> /\ calls' = <<>>
  /\ delivered' = {} /\ nCalls' = 0
  /\ UNCHANGED <<file, env, taskVars, submits, cpBase, clean>>

\* getLatestBlkNum: eth_blockNumber answers with the head, hex-encoded
HeadOk ==
  /\ pc = "getHead"
  /\ hTry - 1 >= 0
  /\ hTry' = 0
  /\ curBlkNum' = ParseInt16(ToString16(chainHead))
  /\ pc' = "getBlock"
  /\ UNCHANGED <<file, env, passes, outcome, fromBlkNum, toBlkNum, events,
                 evIdx, tryout, cid, cp0, history, taskVars, ledger>>

\* getLatestBlkNum: the answer carries no block number; parseInt gives NaN
HeadMalformed ==
  /\ pc = "getHead"
  /\ hTry - 1 >= 0
  /\ hTry' = 0
  /\ curBlkNum' = ParseInt16(<<>>)
  /\ pc' = "getBlock"
  /\ UNCHANGED <<file, env, passes, outcome, fromBlkNum, toBlkNum, events,
                 evIdx, tryout, cid, cp0, history, taskVars, ledger>>

\* getLatestBlkNum: axios.post throws; the catch sleeps and the loop goes on
HeadFail ==
  /\ pc = "getHead"
  /\ hTry - 1 >= 0
  /\ hTry' = hTry - 1
  /\ UNCHANGED <<file, env, pc, passes, outcome, curBlkNum, fromBlkNum,
                 toBlkNum, events, evIdx, tryout, cid, cp0, history,
                 taskVars, ledger>>

\* HeadExhausted with the loop test `--tryout > 0`: gives up one attempt early
HeadExhaustedEarly ==
  /\ pc = "getHead"
  /\ ~(hTry - 1 > 0)
  /\ hTry' = 0
  /\ curBlkNum' = Num(-1)
  /\ EndPass("headFail")
  /\ UNCHANGED <<file, env, passes, fromBlkNum, toBlkNum, events, evIdx,
                 tryout, cid, cp0, history, taskVars>>

\* getLatestBlkNum returns -1; handleMonitor logs and returns
HeadExhausted ==
  /\ pc = "getHead"
  /\ ~(hTry - 1 >= 0)
  /\ hTry' = 0
  /\ curBlkNum' = Num(-1)
  /\ EndPass("headFail")
  /\ UNCHANGED <<file, env, passes, fromBlkNum, toBlkNum, events, evIdx,
                 tryout, cid, cp0, history, taskVars>>

\* getBlock: JSON.parse throws on an empty or unparsable file
GetBlockThrow ==
  /\ pc = "getBlock"
  /\ GetBlockThrows
  /\ EndPass("threw")
  /\ UNCHANGED <<file, env, passes, locals, history, taskVars>>

\* no checkpoint file: fromBlkNum = curBlkNum; saveBlock(fromBlkNum)
ColdStart ==
  /\ pc = "getBlock"
  /\ ~GetBlockThrows
  /\ GetBlock = Num(-1)
  /\ cp0' = GetBlock
  /\ cpBase' = IF cpBase = None /\ curBlkNum.t = "num" THEN curBlkNum
                ELSE cpBase
  /\ fromBlkNum' = curBlkNum
  /\ file' = SaveBlock(curBlkNum)
  /\ writes' = Append(writes, WriteRec(curBlkNum))
  /\ toBlkNum' = JsAdd(curBlkNum, searchStep)
  /\ pc' = "loop"
  /\ UNCHANGED <<env, passes, outcome, curBlkNum, hTry, events, evIdx,
                 tryout, cid, queries, calls, delivered, nCalls, taskVars,
                 submits, clean, prevOutcome>>

\* Clamp without its return: the walk starts from the stored block number
ClampNoReturn ==
  /\ pc = "getBlock"
  /\ ~GetBlockThrows
  /\ GetBlock # Num(-1)
  /\ JsGt(GetBlock, curBlkNum)
  /\ cp0' = GetBlock
  /\ fromBlkNum' = GetBlock
  /\ file' = SaveBlock(curBlkNum)
  /\ writes' = Append(writes, WriteRec(curBlkNum))
  /\ toBlkNum' = JsAdd(GetBlock, searchStep)
  /\ pc' = "loop"
  /\ UNCHANGED <<env, passes, outcome, curBlkNum, hTry, events, evIdx,
                 tryout, cid, queries, calls, delivered, nCalls, taskVars,
                 ledger>>

\* fromBlkNum > curBlkNum: saveBlock(curBlkNum); return
Clamp ==
  /\ pc = "getBlock"
  /\ ~GetBlockThrows
  /\ GetBlock # Num(-1)
  /\ JsGt(GetBlock, curBlkNum)
  /\ cp0' = GetBlock
  /\ fromBlkNum' = GetBlock
  /\ file' = SaveBlock(curBlkNum)
  /\ writes' = Append(writes, WriteRec(curBlkNum))
  /\ EndPass("clamp")
  /\ UNCHANGED <<env, passes, curBlkNum, toBlkNum, hTry, events, evIdx,
                 tryout, cid, queries, calls, delivered, nCalls, taskVars>>

\* otherwise the walk starts at the stored block number
Resume ==
  /\ pc = "getBlock"
  /\ ~GetBlockThrows
  /\ GetBlock # Num(-1)
  /\ ~JsGt(GetBlock, curBlkNum)
  /\ cp0' = GetBlock
  /\ fromBlkNum' = GetBlock
  /\ toBlkNum' = JsAdd(GetBlock, searchStep)
  /\ pc' = "loop"
  /\ UNCHANGED <<file, env, passes, outcome, curBlkNum, hTry, events, evIdx,
                 tryout, cid, history, taskVars, ledger>>

\* the filter posted for the current range
Filter == [fromBlock |-> ToString16(fromBlkNum.n),
           toBlock |-> ToString16(toBlkNum.n)]

\* while (fromBlkNum <= curBlkNum): eth_getLogs answers
GetLogsOk ==
  /\ pc = "loop"
  /\ JsLe(fromBlkNum, curBlkNum)
  /\ fromBlkNum.t = "num"
  /\ queries' = Append(queries, Filter)
  /\ events' = EthGetLogs(Filter)
  /\ evIdx' = 1
  /\ pc' = IF events' = <<>> THEN "saveRange" ELSE "parseLog"
  /\ UNCHANGED <<file, env, passes, outcome, curBlkNum, fromBlkNum, toBlkNum,
                 hTry, tryout, cid, cp0, writes, calls, delivered, nCalls,
                 taskVars, ledger>>

\* eth_getLogs fails (or answers without a result): caught at line 99
GetLogsFail ==
  /\ pc = "loop"
  /\ JsLe(fromBlkNum, curBlkNum)
  /\ fromBlkNum.t = "num"
  /\ queries' = Append(queries, Filter)
  /\ EndPass("logFail")
  /\ UNCHANGED <<file, env, passes, locals, writes, calls, delivered, nCalls,
                 taskVars>>

\* fromBlkNum is null: fromBlkNum.toString(16) throws, caught at line 99
GetLogsTypeError ==
  /\ pc = "loop"
  /\ JsLe(fromBlkNum, curBlkNum)
  /\ fromBlkNum.t # "num"
  /\ EndPass("logFail")
  /\ UNCHANGED <<file, env, passes, locals, history, taskVars>>

\* the while loop ends: saveBlock(curBlkNum)
LoopExit ==
  /\ pc = "loop"
  /\ ~JsLe(fromBlkNum, curBlkNum)
  /\ file' = SaveBlock(curBlkNum)
  /\ writes' = Append(writes, WriteRec(curBlkNum))
  /\ EndPass("ok")
  /\ UNCHANGED <<env, passes, locals, queries, calls, delivered, nCalls,
                 taskVars>>

\* the for-of loop moves on from the current event
NextEvent ==
  /\ delivered' = delivered \cup {events[evIdx]}
  /\ IF evIdx < Len(events)
       THEN evIdx' = evIdx + 1 /\ pc' = "parseLog"
       ELSE evIdx' = evIdx /\ pc' = "saveRange"

\* storageOrderIface.parseLog(event) decodes the entry; tryout = 5
ParseLogOk ==
  /\ pc = "parseLog"
  /\ events[evIdx] \notin malformed
  /\ tryout' = DeliveryTryout
  /\ calls' = <<>>
  /\ pc' = "pin"
  /\ UNCHANGED <<file, env, passes, outcome, curBlkNum, fromBlkNum, toBlkNum,
                 hTry, events, evIdx, cid, cp0, queries, writes, delivered,
                 nCalls, taskVars, ledger>>

\* parseLog throws on an entry that does not decode: caught at line 99
ParseLogFail ==
  /\ pc = "parseLog"
  /\ events[evIdx] \in malformed
  /\ EndPass("decodeFail")
  /\ UNCHANGED <<file, env, passes, locals, history, taskVars>>

PinCalls == Len(SelectSeq(calls, LAMBDA c : c.op = "pin"))

\* while (tryout-- > 0): pin2Gateway returns a (version 1) cid
PinOk ==
  /\ pc = "pin"
  /\ tryout > 0
  /\ tryout' = tryout - 1
  /\ cid' = [ver |-> 1, h |-> PinCalls + 1]
  /\ calls' = Append(calls, [op |-> "pin", ok |-> TRUE, cid |-> cid'])
  /\ nCalls' = nCalls + 1
  /\ pc' = "order"
  /\ UNCHANGED <<file, env, passes, outcome, curBlkNum, fromBlkNum, toBlkNum,
                 hTry, events, evIdx, cp0, queries, writes, delivered,
                 taskVars, ledger>>

\* pin2Gateway throws outside the inner try: caught at line 99
PinFail ==
  /\ pc = "pin"
  /\ tryout > 0
  /\ tryout' = tryout - 1
  /\ calls' = Append(calls, [op |-> "pin", ok |-> FALSE, cid |-> NoCid])
  /\ nCalls' = nCalls + 1
  /\ EndPass("pinFail")
  /\ UNCHANGED <<file, env, passes, curBlkNum, fromBlkNum, toBlkNum, hTry,
                 events, evIdx, cid, cp0, queries, writes, delivered,
                 taskVars>>

\* while (tryout-- > 0) is false: the event is given up
BudgetExhausted ==
  /\ pc = "pin"
  /\ ~(tryout > 0)
  /\ tryout' = tryout - 1
  /\ NextEvent
  /\ UNCHANGED <<file, env, passes, outcome, curBlkNum, fromBlkNum, toBlkNum,
                 hTry, events, cid, cp0, queries, writes, calls, nCalls,
                 taskVars, ledger>>

\* OrderOk without its break: the while loop goes on after a successful order
OrderOkNoBreak ==
  /\ pc = "order"
  /\ calls' = Append(calls, [op |-> "order", ok |-> TRUE, cid |-> ToV0(cid)])
  /\ nCalls' = nCalls + 1
  /\ CountSubmit(events[evIdx])
  /\ pc' = "pin"
  /\ UNCHANGED <<file, env, passes, outcome, curBlkNum, fromBlkNum, toBlkNum,
                 hTry, events, evIdx, tryout, cid, cp0, queries, writes,
                 delivered, taskVars, cpBase, clean, prevOutcome>>

\* context.mainnetApi.order(cid, ...) succeeds: break
OrderOk ==
  /\ pc = "order"
  /\ calls' = Append(calls, [op |-> "order", ok |-> TRUE, cid |-> ToV0(cid)])
  /\ nCalls' = nCalls + 1
  /\ CountSubmit(events[evIdx])
  /\ NextEvent
  /\ UNCHANGED <<file, env, passes, outcome, curBlkNum, fromBlkNum, toBlkNum,
                 hTry, events, tryout, cid, cp0, queries, writes, taskVars,
                 cpBase, clean, prevOutcome>>

\* order throws: the inner catch logs, sleeps, and the while loop goes on
OrderFail ==
  /\ pc = "order"
  /\ calls' = Append(calls, [op |-> "order", ok |-> FALSE, cid |-> ToV0(cid)])
  /\ nCalls' = nCalls + 1
  /\ CountSubmit(events[evIdx])
  /\ clean' = FALSE
  /\ pc' = "pin"
  /\ UNCHANGED <<file, env, passes, outcome, curBlkNum, fromBlkNum, toBlkNum,
                 hTry, events, evIdx, tryout, cid, cp0, queries, writes,
                 delivered, taskVars, cpBase, prevOutcome>>

\* saveBlock(toBlkNum); fromBlkNum = toBlkNum; toBlkNum += searchStep
SaveRange ==
  /\ pc = "saveRange"
  /\ file' = SaveBlock(toBlkNum)
  /\ writes' = Append(writes, WriteRec(toBlkNum))
  /\ fromBlkNum' = toBlkNum
  /\ toBlkNum' = JsAdd(toBlkNum, searchStep)
  /\ pc' = "loop"
  /\ UNCHANGED <<env, passes, outcome, curBlkNum, hTry, events, evIdx,
                 tryout, cid, cp0, queries, calls, delivered, nCalls,
                 taskVars, ledger>>

\* the source chain grows
ChainAdvance ==
  /\ \E h \in HeadValues : h > chainHead /\ chainHead' = h
  /\ UNCHANGED <<file, malformed, pc, passes, outcome, locals, history,
                 taskVars, ledger>>

\* the process is killed inside a pass and restarted
Crash ==
  /\ pc # "idle"
  /\ EndPass("crash")
  /\ UNCHANGED <<file, env, passes, locals, history, taskVars>>

----------------------------------------------------------------------------
(* makeIntervalTask: the periodic task scheduler *)
TaskIdle ==
  /\ tState = "none" /\ tArgs = <<0, 0>> /\ stopped = FALSE /\ timer = 0
  /\ armed = {} /\ running = 0 /\ starts = 0 /\ stops = 0

ArgValues == -1..MaxDelay

\* setTimeout returns a handle distinct from every live one
FreshTimer == CHOOSE i \in 1..(Cardinality(armed) + 2) : i \notin armed \cup {timer}

\* MakeIntervalTask with `<` for `<=` in its argument check
MakeIntervalTaskLax(startDelay, interval) ==
  /\ tState = "none"
  /\ tArgs' = <<startDelay, interval>>
  /\ tState' = IF startDelay < 0 \/ interval < 0 THEN "error" ELSE "created"
  /\ UNCHANGED <<stopped, timer, armed, running, starts, stops, scanVars>>

\* makeIntervalTask(startDelay, interval, ...): throws on a non-positive
\* argument, otherwise returns the Task
MakeIntervalTask(startDelay, interval) ==
  /\ tState = "none"
  /\ tArgs' = <<startDelay, interval>>
  /\ tState' = IF startDelay <= 0 \/ interval <= 0 THEN "error" ELSE "created"
  /\ UNCHANGED <<stopped, timer, armed, running, starts, stops, scanVars>>

\* start: timer = setTimeout(doInterval, startDelay); stopped = false
TaskStart ==
  /\ tState = "created"
  /\ starts < MaxStarts
  /\ starts' = starts + 1
  /\ timer' = FreshTimer
  /\ armed' = armed \cup {FreshTimer}
  /\ stopped' = FALSE
  /\ UNCHANGED <<tState, tArgs, running, stops, scanVars>>

\* TaskStop without its clearTimeout
TaskStopNoClear ==
  /\ tState = "created"
  /\ stops < MaxStops
  /\ stops' = stops + 1
  /\ stopped' = TRUE
  /\ UNCHANGED <<tState, tArgs, timer, armed, running, starts, scanVars>>

\* stop: stopped = true; if (timer) clearTimeout(timer)
TaskStop ==
  /\ tState = "created"
  /\ stops < MaxStops
  /\ stops' = stops + 1
  /\ stopped' = TRUE
  /\ armed' = IF timer # 0 THEN armed \ {timer} ELSE armed
  /\ UNCHANGED <<tState, tArgs, timer, running, starts, scanVars>>

\* a timer expires and runs doInterval: return if stopped, else the handler
\* is invoked
TimerFire(id) ==
  /\ id \in armed
  /\ armed' = armed \ {id}
  /\ running' = IF stopped THEN running ELSE running + 1
  /\ UNCHANGED <<tState, tArgs, stopped, timer, starts, stops, scanVars>>

\* finally: if (!stopped) timer = setTimeout(doInterval, interval)
Finally ==
  /\ running' = running - 1
  /\ IF ~stopped
       THEN timer' = FreshTimer /\ armed' = armed \cup {FreshTimer}
       ELSE UNCHANGED <<timer, armed>>
  /\ UNCHANGED <<tState, tArgs, stopped, starts, stops, scanVars>>

\* the awaited handler resolves
HandlerReturn ==
  /\ running > 0
  /\ Finally

\* HandlerThrow with the exception escaping doInterval before the re-arm
HandlerThrowNoFinally ==
  /\ running > 0
  /\ running' = running - 1
  /\ UNCHANGED <<tState, tArgs, stopped, timer, armed, starts, stops,
                 scanVars>>

\* the awaited handler rejects: the catch logs the error
HandlerThrow ==
  /\ running > 0
  /\ Finally

ScanInit ==
  /\ chainHead \in HeadValues
  /\ file \in {Absent, Empty, Garbage}
                \cup {Json(Num(c)) : c \in {h \in HeadValues : h <= chainHead}}
  /\ malformed \in {{}} \cup {{i} : i \in LogIds}
  /\ pc = "idle" /\ passes = 0 /\ outcome = "none"
  /\ curBlkNum = None /\ fromBlkNum = None /\ toBlkNum = None
  /\ hTry = 0 /\ events = <<>> /\ evIdx = 0 /\ tryout = 0 /\ cid = NoCid
  /\ cp0 = None
  /\ queries = <<>> /\ writes = <<>> /\ calls = <<>>
  /\ delivered = {} /\ nCalls = 0
  /\ submits = [l \in LogIds |-> 0]
  /\ cpBase = (IF file.kind = "json" THEN file.val ELSE None)
  /\ clean = TRUE /\ prevOutcome = "none"

\* the scanner at rest, for the scheduler's specification
ScanIdle ==
  /\ chainHead = MaxHead /\ file = Absent /\ malformed = {}
  /\ pc = "idle" /\ passes = 0 /\ outcome = "none"
  /\ curBlkNum = None /\ fromBlkNum = None /\ toBlkNum = None
  /\ hTry = 0 /\ events = <<>> /\ evIdx = 0 /\ tryout = 0 /\ cid = NoCid
  /\ cp0 = None
  /\ queries = <<>> /\ writes = <<>> /\ calls = <<>>
  /\ delivered = {} /\ nCalls = 0
  /\ submits = [l \in LogIds |-> 0] /\ cpBase = None /\ clean = TRUE
  /\ prevOutcome = "none"

Init == ScanInit /\ TaskIdle

Next ==
  \/ StartPass
  \/ HeadOk \/ HeadMalformed \/ HeadFail \/ HeadExhausted
  \/ GetBlockThrow \/ ColdStart \/ Clamp \/ Resume
  \/ GetLogsOk \/ GetLogsFail \/ GetLogsTypeError \/ LoopExit
  \/ ParseLogOk \/ ParseLogFail
  \/ PinOk \/ PinFail \/ BudgetExhausted
  \/ OrderOk \/ OrderFail
  \/ SaveRange
  \/ ChainAdvance
  \/ Crash

Spec == Init /\ [][Next]_vars

TaskInit == TaskIdle /\ ScanIdle

TaskNext ==
  \/ (\E sd, iv \in ArgValues : MakeIntervalTask(sd, iv))
  \/ TaskStart
  \/ TaskStop
  \/ (\E id \in armed : TimerFire(id))
  \/ HandlerReturn
  \/ HandlerThrow

\* timers that are armed expire
TaskFairSpec ==
  TaskInit /\ [][TaskNext]_vars /\ WF_vars(\E id \in armed : TimerFire(id))

TaskSpec == TaskInit /\ [][TaskNext]_vars

----------------------------------------------------------------------------
(* Properties *)
Last(q) == q[Len(q)]
Min(a, b) == IF a <= b THEN a ELSE b
QFrom(q) == ParseDigits(q.fromBlock, 0)
QTo(q) == ParseDigits(q.toBlock, 0)
IsBlock(v) == v.t = "num" /\ v.n >= 0
OrderCalls == SelectSeq(calls, LAMBDA c : c.op = "order")
\* the pass just made a saveBlock call
Wrote == Len(writes') > Len(writes)
\* an uninterrupted pass that started from checkpoint C < head H has ended
FullPassBelowHead ==
  /\ pc = "idle" /\ outcome = "ok"
  /\ IsBlock(cp0) /\ IsBlock(curBlkNum) /\ cp0.n < curBlkNum.n

\* C1: every block number handleMonitor writes with saveBlock is greater
\* than or equal to the block number stored before the write and less than
\* or equal to the head of the source chain at the time of the write.
C1_CheckpointMonotoneBelowHead ==
  [][Wrote /\ IsBlock(Last(writes').val) =>
       /\ (file.kind = "json" /\ IsBlock(file.val)
             => Last(writes').val.n >= file.val.n)
       /\ Last(writes').val.n <= chainHead]_vars

\* C2: an uninterrupted pass from checkpoint C < head H posts log queries
\* [f1,t1],...,[fk,tk] with f1 = C+1, tk = H, f(i+1) = t(i)+1 and
\* t(i) - f(i) <= searchStep.
C2_RangeCompleteness ==
  FullPassBelowHead =>
    /\ queries # <<>>
    /\ QFrom(queries[1]) = cp0.n + 1
    /\ QTo(Last(queries)) = curBlkNum.n
    /\ \A i \in 1..(Len(queries) - 1) :
         QFrom(queries[i + 1]) = QTo(queries[i]) + 1
    /\ \A i \in 1..Len(queries) :
         QTo(queries[i]) - QFrom(queries[i]) <= searchStep

\* C3: for any sequence of start() calls, stop() calls, timer expiries and
\* handler completions at most one handler invocation is in flight.
C3_NoOverlap == running <= 1

\* C4: a pin that fails within the retry budget of 5 is retried, so that a
\* pin failing k-1 times and succeeding on attempt k is followed by a submit;
\* every submit carries the cid of the pin made just before it.
C4_PinRetried ==
  /\ (/\ calls # <<>>
      /\ Last(calls).op = "pin" /\ ~Last(calls).ok
      /\ PinCalls < 5)
       => pc = "pin"
  /\ \A i \in 1..Len(calls) :
       calls[i].op = "order" =>
         /\ i > 1 /\ calls[i - 1].op = "pin" /\ calls[i - 1].ok
         /\ calls[i].cid = ToV0(calls[i - 1].cid)

\* C5: the delivery of an event propagates no error to the scan pass: no
\* pin or submit failure ends the pass, whose remaining events are still
\* processed.
C5_DeliveryNeverEndsPass ==
  [][(pc \in {"pin", "order"} /\ pc' = "idle") => (outcome' = "crash")]_vars

\* C6: for an event whose pins all succeed the attempt sequence makes
\* min(k, 5) submits, k the index of the first successful submit; each
\* submit follows a fresh pin and carries its cid; nothing is called after a
\* successful submit; after 5 failed submits the for-loop goes on to the next
\* event and, after the last event, saveBlock(toBlkNum) persists the range.
C6_SubmitBudget ==
  [][/\ (\A i \in 1..Len(calls') : calls'[i].op = "pin" => calls'[i].ok) =>
          /\ Len(OrderCalls') <= 5
          /\ \A i \in 1..Len(calls') :
               calls'[i].op = "order" =>
                 /\ i > 1 /\ calls'[i - 1].op = "pin"
                 /\ calls'[i].cid = ToV0(calls'[i - 1].cid)
                 /\ \A j \in 1..(i - 2) : calls'[j].cid.h # calls'[i].cid.h
          /\ \A i \in 1..(Len(calls') - 1) :
               ~(calls'[i].op = "order" /\ calls'[i].ok)
     /\ (pc \in {"pin", "order"} /\ pc' \notin {"pin", "order", "idle"}) =>
          /\ \/ Last(calls').op = "order" /\ Last(calls').ok
             \/ /\ Len(OrderCalls') = 5
                /\ \A i \in 1..5 : ~OrderCalls'[i].ok
          /\ events[evIdx] \in delivered'
          /\ IF evIdx < Len(events)
               THEN pc' = "parseLog" /\ evIdx' = evIdx + 1
               ELSE pc' = "saveRange"
     /\ (pc = "saveRange" /\ pc' \notin {"saveRange", "idle"}) =>
          /\ Wrote /\ Last(writes').val = toBlkNum
          /\ file' = Json(toBlkNum)
    ]_vars

\* C6 witness: five submits of one event failed, the walk went on and the
\* range's toBlock was persisted.
C6_Witness ==
  /\ pc = "loop"
  /\ Len(OrderCalls) = 5
  /\ \A i \in 1..5 : ~OrderCalls[i].ok
  /\ writes # <<>> /\ Last(writes).val = fromBlkNum
  /\ file = Json(fromBlkNum)

\* C7: a log entry that fails to decode is skipped alone: the for-loop goes
\* on to the next entry of the range and, after the last one, to
\* saveBlock(toBlkNum).
C7_DecodeFailureSkipsEntry ==
  [][(/\ pc = "parseLog" /\ events[evIdx] \in malformed
      /\ pc' # "parseLog" /\ outcome' # "crash")
       => (pc' = "saveRange")]_vars

\* C8: a pass that reads an empty or unparsable checkpoint record treats it
\* as absent: it persists the current head.
C8_UnparsableLikeAbsent ==
  [][(/\ pc = "getBlock" /\ file.kind \in {"empty", "garbage"}
      /\ pc' # "getBlock" /\ outcome' # "crash")
       => /\ file' = Json(curBlkNum)
          /\ (pc' = "loop")]_vars

\* C9: a pass that finds no checkpoint record with head H writes only H to
\* the checkpoint store, posts no log query and makes no pin/submit call.
C9_ColdStartSkips ==
  (cp0 = Num(-1) /\ IsBlock(curBlkNum)) =>
    /\ queries = <<>>
    /\ nCalls = 0
    /\ \A i \in 1..Len(writes) : writes[i].val = curBlkNum

\* C10: an uninterrupted pass from checkpoint C < head H writes exactly
\* min(C + i*searchStep, H) for i = 1..ceil((H-C)/searchStep), in order,
\* each after the delivery of every event of its range has ended.
C10_WriteSequence ==
  FullPassBelowHead =>
    LET C == cp0.n
        H == curBlkNum.n
        n == (H - C + searchStep - 1) \div searchStep
    IN /\ Len(writes) = n
       /\ \A i \in 1..n :
            /\ writes[i].val = Num(Min(C + i * searchStep, H))
            /\ \A l \in LogIds :
                 (/\ ChainLogs[l].blk > C + (i - 1) * searchStep
                  /\ ChainLogs[l].blk <= Min(C + i * searchStep, H))
                   => l \in writes[i].fin


\* C11: once stop() has been called and start() not called again, no handler
\* invocation begins; stop() cancels the timer the task holds and leaves the
\* invocation in flight alone, and an invocation that finishes arms no
\* timer; after a single start() no timer at all is pending.
C11_StopPreventsInvocations ==
  [][/\ (stopped /\ stopped') =>
          /\ running' <= running
          /\ armed' \subseteq armed
     /\ (stops' > stops) =>
          /\ stopped'
          /\ running' = running
          /\ timer \notin armed'
     /\ (stopped' /\ starts' = 1) => (armed' = {})
    ]_vars

\* C11 witness: stop() was called while an invocation is in flight, which
\* still runs, and no timer is pending.
C11_Witness == stopped /\ running = 1 /\ armed = {} /\ stops >= 1

\* C12: after stop() has been called, a later start() never causes a handler
\* invocation and never arms a timer.
C12_StoppedIsTerminal ==
  [][stops >= 1 => (running' <= running /\ armed' \subseteq armed)]_vars

\* C13: for a started, not-stopped task, an invocation that ends, by
\* returning or by throwing, arms exactly one timer, and the handler is
\* invoked again unless the task is stopped first.
C13_ScheduleSurvivesThrow ==
  /\ [][(running' < running /\ ~stopped) =>
          /\ Cardinality(armed') = Cardinality(armed) + 1
          /\ timer' \in armed' \ armed]_vars
  /\ ((tState = "created" /\ ~stopped /\ running = 0 /\ armed # {})
        ~> (running > 0 \/ stopped))

\* C13 witness: an invocation has ended, the task is not stopped and its
\* timer is armed again.
C13_Witness ==
  /\ tState = "created" /\ ~stopped /\ running = 0
  /\ timer \in armed /\ starts = 1 /\ timer # 1

\* C14: makeIntervalTask returns a Task when startDelay and interval are
\* both > 0 and throws when either is <= 0, before any timer is armed or the
\* handler invoked.
C14_ArgumentCheck ==
  tState # "none" =>
    /\ (tState = "created") <=> (tArgs[1] > 0 /\ tArgs[2] > 0)
    /\ (tState = "error") <=> (tArgs[1] <= 0 \/ tArgs[2] <= 0)
    /\ (tState = "error") =>
         (armed = {} /\ running = 0 /\ timer = 0 /\ starts = 0)

\* C14 witness: creation failed on a zero interval with a valid startDelay.
C14_Witness == tState = "error" /\ tArgs[1] > 0 /\ tArgs[2] = 0


\* C15: when the log fetch of range i fails the pass ends there, the stored
\* checkpoint is the toBlock of range i-1 (the pass's starting checkpoint
\* when i = 1), and the first query of the next pass starts at the block
\* right after the stored checkpoint.
C15_LogFailureResumes ==
  /\ (pc = "idle" /\ outcome = "logFail" /\ queries # <<>>) =>
       file = Json(IF Len(queries) > 1
                     THEN Num(QTo(queries[Len(queries) - 1]))
                     ELSE IF cp0 = Num(-1) THEN curBlkNum ELSE cp0)
  /\ (prevOutcome = "logFail" /\ queries # <<>> /\ IsBlock(cp0)) =>
       QFrom(queries[1]) = cp0.n + 1

\* C16: every log of a block b that exists, with (first checkpoint) < b <=
\* (stored checkpoint), has had at least one order call.
C16_CheckpointCoversDelivered ==
  (file.kind = "json" /\ IsBlock(file.val) /\ IsBlock(cpBase)) =>
    \A l \in LogIds :
      (/\ ChainLogs[l].blk > cpBase.n
       /\ ChainLogs[l].blk <= file.val.n
       /\ ChainLogs[l].blk <= chainHead)
        => submits[l] >= 1

\* C17: getLatestBlkNum makes at most 10 head queries; when all 10 fail the
\* pass ends with no log query, no pin/order call and no saveBlock; an answer
\* to any of the 10 is the head the pass goes on with, and no head query
\* follows it.
C17_HeadRetryBudget ==
  [][/\ (pc = "idle" /\ pc' = "getHead") => (hTry' = 10)
     /\ (pc = "getHead" /\ pc' = "getHead" /\ hTry' # hTry) =>
          (hTry' = hTry - 1)
     /\ (pc = "getHead" /\ outcome' = "headFail") =>
          /\ hTry = 0
          /\ pc' = "idle"
          /\ queries' = <<>> /\ nCalls' = 0 /\ writes' = <<>>
          /\ file' = file
     /\ (pc = "getHead" /\ pc' = "getBlock") =>
          /\ hTry >= 1
          /\ (curBlkNum'.t = "num") => (curBlkNum' = Num(chainHead))
     /\ (pc \notin {"idle", "getHead"}) => (pc' # "getHead")
    ]_vars

\* C17 witness: a pass ended after ten failed head queries, having written
\* and queried nothing.
C17_Witness ==
  /\ pc = "idle" /\ outcome = "headFail" /\ hTry = 0
  /\ writes = <<>> /\ queries = <<>> /\ nCalls = 0

\* C18: whatever the head queries answer, the checkpoint store holds a valid
\* block number whenever it holds a record written by saveBlock.
C18_CheckpointStaysValid ==
  (file.kind = "json") => IsBlock(file.val)

\* C19: a pass that finds the stored checkpoint greater than the fetched
\* head writes the head and ends: one saveBlock, no log query, no pin/order
\* call.
C19_ClampEndsPass ==
  (IsBlock(cp0) /\ IsBlock(curBlkNum) /\ cp0.n > curBlkNum.n) =>
    /\ pc = "idle" /\ outcome = "clamp"
    /\ Len(writes) = 1 /\ writes[1].val = curBlkNum
    /\ file = Json(curBlkNum)
    /\ queries = <<>>
    /\ nCalls = 0

\* C19 witness: a pass found the stored checkpoint above the head.
C19_Witness ==
  /\ IsBlock(cp0) /\ IsBlock(curBlkNum) /\ cp0.n > curBlkNum.n
  /\ outcome = "clamp" /\ file = Json(curBlkNum)

\* C20: as long as no pass was cut short or clamped and every pin and order
\* succeeded at once, no block is queried by two ranges of a pass and no log
\* receives more than one order call.
C20_ExactlyOneSubmit ==
  clean =>
    /\ \A i, j \in 1..Len(queries) :
         i < j => QTo(queries[i]) < QFrom(queries[j])
    /\ \A l \in LogIds : submits[l] <= 1

====
